---- MODULE Spec2Model ----
(***************************************************************************)
(* Model of bacpypes/app.py: the Application dispatcher (request,          *)
(* confirmation, indication) and the per-destination                       *)
(* ApplicationController that serialises confirmed requests.               *)
(*                                                                         *)
(* The IOQController base class (iocb.py) and the service element base     *)
(* class (comm.py) are not part of app.py; the operators that stand for    *)
(* them (ActiveIO, RequestIO, ResolveIO, CompleteIO, AbortIO, Response)    *)
(* follow the DestinationController contract of the specification.         *)
(***************************************************************************)
EXTENDS Integers, Sequences, FiniteSets, TLC

\* ---- bounds -------------------------------------------------------------
MaxReq == 3        \* requests (confirmed or unconfirmed) sent down in one behaviour
MaxInd == 2        \* indications handed to a helper function in one behaviour
MaxInfos == 2      \* DeviceInfo records built in one behaviour

\* ---- values -------------------------------------------------------------
None == 0
Addr == {"A1", "A2"}

RequestTypes == {"UnconfirmedRequestPDU", "ConfirmedRequestPDU"}
AckTypes == {"SimpleAckPDU", "ComplexAckPDU"}
ErrTypes == {"ErrorPDU", "RejectPDU", "AbortPDU"}

\* messages handed to Application.request: id is the identity of the
\* message object (0 while no IOCB wraps it)
RequestInputs ==
    [type : RequestTypes \cup {"SimpleAckPDU"}, pduDestination : Addr, id : {0}]

\* messages handed to Application.confirmation
ConfirmationInputs ==
    [type : AckTypes \cup ErrTypes \cup {"ConfirmedRequestPDU"}, pduSource : Addr]

NoAPDU == [type |-> "none", pduSource |-> "none"]

\* keys of the device information cache: device identifiers (integers in
\* the program), station addresses, an address that is no station, a value
\* that is neither; NoKey stands for None as identifier or address
NoKey == "None"
DeviceIds == {"I1", "I2"}
StationAddrs == Addr
OtherAddrs == {"*"}
NotKeys == {"name"}
CacheKeys == DeviceIds \cup StationAddrs \cup {NoKey}
EmptyCache == [k \in CacheKeys |-> None]

\* an Application built without local device: no object, and the attribute
\* localDevice is not set
NoDevice ==
    [present |-> FALSE, objectName |-> "", objectIdentifier |-> <<>>,
     hasObjectList |-> FALSE, objectList |-> <<>>]

VARIABLES
    controllers,   \* Application.controllers: address -> controller (None if absent)
    ctls,          \* every ApplicationController ever built, by identity
    iocbs,         \* every IOCB ever built, by identity
    lower,         \* the messages handed to request_fn, in call order
    ret,           \* the last call: operation, value returned, exception raised
    helpers,       \* the service names S for which the application has do_S
    responses,     \* the messages handed to self.response, in call order
    invoked,       \* the messages handed to helper functions, in call order
    cache,         \* DeviceInfoCache.cache: key -> record (None if absent)
    infos,         \* every DeviceInfo ever built, by identity
    objectName,    \* Application.objectName: name -> object
    objectIdentifier, \* Application.objectIdentifier: identifier -> object
    localDevice,   \* Application.localDevice and its objectList
    attached,      \* the objects whose _app is this application
    services       \* the bits set in the last ServicesSupported returned

vars == <<controllers, ctls, iocbs, lower, ret, helpers, responses, invoked,
          cache, infos, objectName, objectIdentifier, localDevice, attached,
          services>>
appVars == <<controllers, ctls, iocbs, lower>>
indVars == <<helpers, responses, invoked>>
cacheVars == <<cache, infos>>
objVars == <<objectName, objectIdentifier, localDevice, attached>>

\* ---- IOCB and controller construction -----------------------------------
IOCB(apdu, id) ==
    [apdu |-> [apdu EXCEPT !.id = id], ioState |-> "IDLE",
     ioResponse |-> NoAPDU, ioError |-> NoAPDU, ioController |-> None]

ApplicationController(address) ==
    [address |-> address, active_iocb |-> None, queue |-> <<>>]

\* the part of the state the controller operations work on
State == [ctls |-> ctls, iocbs |-> iocbs, lower |-> lower]

\* ---- IOQController (contract of the specification) -----------------------
ActiveIO(st, c, i) ==
    [st EXCEPT !.ctls[c].active_iocb = i, !.iocbs[i].ioState = "ACTIVE"]

\* ApplicationController.process_io
ProcessIO(st, c, i) ==
    LET act == ActiveIO(st, c, i)
    IN  [act EXCEPT !.lower = Append(act.lower, act.iocbs[i].apdu)]

RequestIO(st, c, i) ==
    LET bound == [st EXCEPT !.iocbs[i].ioController = c]
    IN  IF bound.ctls[c].active_iocb = None
        THEN ProcessIO(bound, c, i)
        ELSE [bound EXCEPT !.iocbs[i].ioState = "PENDING",
                           !.ctls[c].queue = Append(@, i)]

\* after the active request is resolved: start the next queued one, if any
ResolveIO(st, c) ==
    LET idle == [st EXCEPT !.ctls[c].active_iocb = None]
    IN  IF idle.ctls[c].queue # <<>>
        THEN LET next == Head(idle.ctls[c].queue)
             IN  ProcessIO([idle EXCEPT !.ctls[c].queue = Tail(@)], c, next)
        ELSE idle

CompleteIO(st, c, i, msg) ==
    IF i = None THEN st
    ELSE ResolveIO([st EXCEPT !.iocbs[i].ioState = "COMPLETED",
                              !.iocbs[i].ioResponse = msg], c)

AbortIO(st, c, i, err) ==
    IF i = None THEN st
    ELSE ResolveIO([st EXCEPT !.iocbs[i].ioState = "ABORTED",
                              !.iocbs[i].ioError = err], c)

\* ---- Application.request -------------------------------------------------
\* variant: the wrong class is tested
IsUnconfirmedRequest_Swapped(apdu) == apdu.type = "ConfirmedRequestPDU"

IsUnconfirmedRequest(apdu) == apdu.type = "UnconfirmedRequestPDU"

\* variants: the class test always succeeds, always fails
IsConfirmedRequest_Always(apdu) == TRUE

IsConfirmedRequest_Never(apdu) == FALSE

IsConfirmedRequest(apdu) == apdu.type = "ConfirmedRequestPDU"

NumUnconf == Cardinality({k \in 1..Len(lower) : lower[k].type = "UnconfirmedRequestPDU"})

Request(apdu) ==
    IF IsUnconfirmedRequest(apdu) THEN
        /\ Len(iocbs) + NumUnconf < MaxReq
        /\ lower' = Append(lower, apdu)
        /\ ret' = [op |-> "request", result |-> None, exc |-> "none"]
        /\ UNCHANGED <<controllers, ctls, iocbs>>
    ELSE IF IsConfirmedRequest(apdu) THEN
        /\ Len(iocbs) + NumUnconf < MaxReq
        /\ LET iocb == Len(iocbs) + 1
               found == controllers[apdu.pduDestination]
               controller == IF found = None THEN Len(ctls) + 1 ELSE found
               built == [State EXCEPT
                           !.iocbs = Append(@, IOCB(apdu, iocb)),
                           !.ctls = IF found = None
                                    THEN Append(@, ApplicationController(apdu.pduDestination))
                                    ELSE @]
               st == RequestIO(built, controller, iocb)
           IN  /\ controllers' = [controllers EXCEPT ![apdu.pduDestination] = controller]
               /\ ctls' = st.ctls
               /\ iocbs' = st.iocbs
               /\ lower' = st.lower
               /\ ret' = [op |-> "request", result |-> iocb, exc |-> "none"]
    ELSE
        \* neither branch binds iocb: the return statement fails
        /\ ret' = [op |-> "request", result |-> None,
                   exc |-> "UnboundLocalError"]
        /\ UNCHANGED appVars

\* ---- Application.confirmation --------------------------------------------
\* variant: an ErrorPDU is taken for an acknowledgment
IsAck_WithError(apdu) == apdu.type \in AckTypes \cup {"ErrorPDU"}

IsAck(apdu) == apdu.type \in AckTypes

\* variant: whatever is no acknowledgment aborts the request
IsError_Rest(apdu) == apdu.type \notin AckTypes

IsError(apdu) == apdu.type \in ErrTypes

\* variant: the controller is never forgotten
QueueIsEmpty_Never(st, c) == FALSE

QueueIsEmpty(st, c) == st.ctls[c].queue = <<>>

\* no controller for the source: the confirmation is dropped
ConfirmationDropped ==
    /\ ret' = [op |-> "confirmation", result |-> None, exc |-> "none"]
    /\ UNCHANGED appVars

\* raise RuntimeError("unrecognized APDU type")
ConfirmationUnrecognized ==
    /\ ret' = [op |-> "confirmation", result |-> None, exc |-> "RuntimeError"]
    /\ UNCHANGED appVars

\* the request is complete; forget the controller when its queue is empty
ConfirmationResolved(apdu, controller) ==
    LET active == ctls[controller].active_iocb
        st == IF IsAck(apdu)
              THEN CompleteIO(State, controller, active, apdu)
              ELSE AbortIO(State, controller, active, apdu)
    IN  /\ ctls' = st.ctls
        /\ iocbs' = st.iocbs
        /\ lower' = st.lower
        /\ controllers' = IF QueueIsEmpty(st, controller)
                          THEN [controllers EXCEPT ![apdu.pduSource] = None]
                          ELSE controllers
        /\ ret' = [op |-> "confirmation", result |-> None, exc |-> "none"]

\* variant: the type of the message is tested before the registry is read
Confirmation_TypeFirst(apdu) ==
    LET controller == controllers[apdu.pduSource]
    IN  IF ~(IsAck(apdu) \/ IsError(apdu)) THEN ConfirmationUnrecognized
        ELSE IF controller = None THEN ConfirmationDropped
        ELSE ConfirmationResolved(apdu, controller)

Confirmation(apdu) ==
    LET controller == controllers[apdu.pduSource]
    IN  IF controller = None THEN ConfirmationDropped
        ELSE IF IsAck(apdu) \/ IsError(apdu)
        THEN ConfirmationResolved(apdu, controller)
        ELSE ConfirmationUnrecognized

\* ---- specification of the request/confirmation path ----------------------
NoCall == [op |-> "none", result |-> None, exc |-> "none"]

Init ==
    /\ controllers = [a \in Addr |-> None]
    /\ ctls = <<>>
    /\ iocbs = <<>>
    /\ lower = <<>>
    /\ ret = NoCall
    /\ helpers = {}
    /\ responses = <<>>
    /\ invoked = <<>>
    /\ cache = EmptyCache
    /\ infos = <<>>
    /\ objectName = <<>>
    /\ objectIdentifier = <<>>
    /\ localDevice = NoDevice
    /\ attached = {}
    /\ services = {}

DoRequest ==
    \E apdu \in RequestInputs : Request(apdu) /\ UNCHANGED <<indVars, cacheVars, objVars, services>>

DoConfirmation ==
    \E apdu \in ConfirmationInputs :
        Confirmation(apdu) /\ UNCHANGED <<indVars, cacheVars, objVars, services>>

Next == DoRequest \/ DoConfirmation

Spec == Init /\ [][Next]_vars

\* ---- the request/confirmation path with answering peers ------------------
\* a confirmed request for D was handed to the lower layer and its IOCB is
\* neither completed nor aborted
Unanswered(D) ==
    \E i \in 1..Len(iocbs) :
        /\ iocbs[i].apdu.pduDestination = D
        /\ iocbs[i].ioState \notin {"COMPLETED", "ABORTED"}
        /\ \E k \in 1..Len(lower) : lower[k] = iocbs[i].apdu

\* the peer D answers: an ack, error, reject or abort from D is handed to
\* Application.confirmation
Answer(D) ==
    /\ Unanswered(D)
    /\ \E apdu \in ConfirmationInputs :
          /\ apdu.pduSource = D
          /\ IsAck(apdu) \/ IsError(apdu)
          /\ Confirmation(apdu)
          /\ UNCHANGED <<indVars, cacheVars, objVars, services>>

\* every request handed to the lower layer is answered by its destination
SpecAnswered == Init /\ [][Next]_vars /\ \A D \in Addr : WF_vars(Answer(D))

\* ---- Application.indication ----------------------------------------------
ConfirmedNames == {"ReadPropertyRequest", "WritePropertyRequest"}
UnconfirmedNames == {"WhoIsRequest"}
ServiceNames == ConfirmedNames \cup UnconfirmedNames

ErrorClasses == {"device", "object"}
ErrorCodes == {"operationalProblem", "unknownObject"}

\* messages handed to Application.indication: name is the class of the
\* message, type the request class it derives from
IndicationInputs ==
    [type : {"ConfirmedRequestPDU"}, name : ConfirmedNames, id : {0}]
        \cup [type : {"UnconfirmedRequestPDU"}, name : UnconfirmedNames, id : {0}]

\* what a helper function does with a message: return, or raise
HelperOutcomes ==
    [kind : {"return", "RejectException", "AbortException", "Exception"},
     errorClass : {"none"}, errorCode : {"none"}]
        \cup [kind : {"ExecutionError"}, errorClass : ErrorClasses, errorCode : ErrorCodes]

Error(errorClass, errorCode, context) ==
    [type |-> "Error", errorClass |-> errorClass, errorCode |-> errorCode,
     context |-> context]

\* ApplicationServiceElement.response: hand the message to the lower layer
Response(resps, resp) == Append(resps, resp)

HasHelper(apdu) == apdu.name \in helpers

\* variant: the clause that re-raises AbortException is missing
Propagates_RejectOnly(outcome) == outcome.kind = "RejectException"

\* the exceptions of the helper that indication re-raises
Propagates(outcome) == outcome.kind \in {"RejectException", "AbortException"}

\* variant: the fallback answers with the wrong error class
FallbackError_Object(context) == Error("object", "operationalProblem", context)

\* the answer to a confirmed request whose helper failed unexpectedly
FallbackError(context) == Error("device", "operationalProblem", context)

Indication(apdu, outcome) ==
    IF ~HasHelper(apdu) THEN
        /\ ret' = [op |-> "indication", result |-> None,
                   exc |-> IF IsConfirmedRequest(apdu)
                           THEN "UnrecognizedService" ELSE "none"]
        /\ UNCHANGED indVars
    ELSE
        /\ Len(invoked) < MaxInd
        /\ LET msg == [apdu EXCEPT !.id = Len(invoked) + 1]
           IN  /\ invoked' = Append(invoked, [apdu |-> msg, outcome |-> outcome])
               /\ IF Propagates(outcome) THEN
                      /\ ret' = [op |-> "indication", result |-> None,
                                 exc |-> outcome.kind]
                      /\ UNCHANGED responses
                  ELSE IF outcome.kind = "ExecutionError" THEN
                      /\ ret' = [op |-> "indication", result |-> None, exc |-> "none"]
                      /\ responses' =
                            IF IsConfirmedRequest(msg)
                            THEN Response(responses,
                                          Error(outcome.errorClass, outcome.errorCode, msg))
                            ELSE responses
                  ELSE IF outcome.kind # "return" THEN
                      /\ ret' = [op |-> "indication", result |-> None, exc |-> "none"]
                      /\ responses' =
                            IF IsConfirmedRequest(msg)
                            THEN Response(responses, FallbackError(msg))
                            ELSE responses
                  ELSE
                      /\ ret' = [op |-> "indication", result |-> None, exc |-> "none"]
                      /\ UNCHANGED responses
        /\ UNCHANGED helpers

\* ---- specification of the indication path --------------------------------
\* the helper functions are attributes of the application's class: any set
\* of them may be present, and the set does not change
InitInd ==
    /\ controllers = [a \in Addr |-> None]
    /\ ctls = <<>>
    /\ iocbs = <<>>
    /\ lower = <<>>
    /\ ret = NoCall
    /\ helpers \in SUBSET ServiceNames
    /\ responses = <<>>
    /\ invoked = <<>>
    /\ cache = EmptyCache
    /\ infos = <<>>
    /\ objectName = <<>>
    /\ objectIdentifier = <<>>
    /\ localDevice = NoDevice
    /\ attached = {}
    /\ services = {}

DoIndication ==
    \E apdu \in IndicationInputs, outcome \in HelperOutcomes :
        Indication(apdu, outcome) /\ UNCHANGED <<appVars, cacheVars, objVars, services>>

\* ---- Application.get_services_supported ---------------------------------
\* service choice -> request class, and service choice -> the name of its
\* bit in ServicesSupported
confirmed_request_types == (12 :> "ReadPropertyRequest" @@ 15 :> "WritePropertyRequest")

unconfirmed_request_types == (8 :> "WhoIsRequest")

ConfirmedServiceChoice == (12 :> "readProperty" @@ 15 :> "writeProperty")

UnconfirmedServiceChoice == (8 :> "whoIs")

\* variant: every helper is taken to exist
HasAttr_Always(name) == TRUE

\* hasattr(self, "do_" + name)
HasAttr(name) == name \in helpers

\* the bits set in the ServicesSupported returned
GetServicesSupported ==
    {ConfirmedServiceChoice[c] :
        c \in {x \in DOMAIN confirmed_request_types : HasAttr(confirmed_request_types[x])}}
    \cup
    {UnconfirmedServiceChoice[c] :
        c \in {x \in DOMAIN unconfirmed_request_types : HasAttr(unconfirmed_request_types[x])}}

\* the bit string returned is kept in services
DoGetServicesSupported ==
    /\ services' = GetServicesSupported
    /\ ret' = [op |-> "get_services_supported", result |-> None, exc |-> "none"]
    /\ UNCHANGED <<appVars, indVars, cacheVars, objVars>>

NextInd == DoIndication \/ DoGetServicesSupported

SpecInd == InitInd /\ [][NextInd]_vars

\* ---- DeviceInfo, DeviceInfoCache -----------------------------------------
DeviceInfo ==
    [deviceIdentifier |-> NoKey, address |-> NoKey,
     maxApduLengthAccepted |-> 1024, segmentationSupported |-> "noSegmentation",
     vendorID |-> None, maxNpduLength |-> 1497, maxSegmentsAccepted |-> None,
     cache_keys |-> <<NoKey, NoKey>>]

\* the IAmRequest messages handed to add_device_info
IAmInputs ==
    [iAmDeviceIdentifier : DeviceIds, pduSource : StationAddrs,
     maxAPDULengthAccepted : {480}, segmentationSupported : {"segmentedBoth"},
     vendorID : {15}]

\* the cache and the records, and what a call on them returned or raised
CacheState == [cache |-> cache, infos |-> infos, result |-> None, exc |-> "none"]

IsInt(key) == key \in DeviceIds

IsAddress(key) == key \in StationAddrs \cup OtherAddrs

\* variant: every address is taken for a station
IsStation_Any(key) == TRUE

\* key.addrType in (Address.localStationAddr, Address.remoteStationAddr)
IsStation(key) == key \in StationAddrs

\* variant: the address of the new record is not set
NewDeviceInfo_NoAddress(key) == [DeviceInfo EXCEPT !.cache_keys = <<NoKey, key>>]

\* the record built for an unknown station address
NewDeviceInfo(key) == [DeviceInfo EXCEPT !.address = key, !.cache_keys = <<NoKey, key>>]

HasDeviceInfo(cst, key) == key \in CacheKeys /\ cst.cache[key] # None

\* variant: a lookup by identifier builds a record on a miss, as a lookup by
\* address does
GetDeviceInfo_CreateById(cst, key) ==
    IF ~(IsInt(key) \/ IsAddress(key)) \/ (IsAddress(key) /\ ~IsStation(key))
    THEN [cst EXCEPT !.result = None, !.exc = "TypeError"]
    ELSE IF cst.cache[key] # None
    THEN [cst EXCEPT !.result = cst.cache[key], !.exc = "none"]
    ELSE LET new == Len(cst.infos) + 1
             info == [DeviceInfo EXCEPT !.deviceIdentifier = key,
                                        !.cache_keys = <<key, NoKey>>]
         IN  [cache |-> [cst.cache EXCEPT ![key] = new],
              infos |-> Append(cst.infos, info),
              result |-> new, exc |-> "none"]

GetDeviceInfo(cst, key) ==
    IF IsInt(key) THEN
        [cst EXCEPT !.result = cst.cache[key], !.exc = "none"]
    ELSE IF ~IsAddress(key) THEN
        [cst EXCEPT !.result = None, !.exc = "TypeError"]
    ELSE IF ~IsStation(key) THEN
        [cst EXCEPT !.result = None, !.exc = "TypeError"]
    ELSE IF cst.cache[key] # None THEN
        [cst EXCEPT !.result = cst.cache[key], !.exc = "none"]
    ELSE
        LET new == Len(cst.infos) + 1
        IN  [cache |-> [cst.cache EXCEPT ![key] = new],
             infos |-> Append(cst.infos, NewDeviceInfo(key)),
             result |-> new, exc |-> "none"]

\* del self.cache[old]; self.cache[new] = info
\* (the del raises KeyError when old is no key of the cache)
Rekey(cst, old, new, info) ==
    IF cst.cache[old] = None
    THEN [cst EXCEPT !.result = None, !.exc = "KeyError"]
    ELSE [cst EXCEPT !.cache = [@ EXCEPT ![old] = None, ![new] = info]]

UpdateDeviceInfo(cst, info) ==
    LET cache_id == cst.infos[info].cache_keys[1]
        cache_address == cst.infos[info].cache_keys[2]
        idChanged == cache_id # NoKey /\ cst.infos[info].deviceIdentifier # cache_id
        s1 == IF idChanged
              THEN Rekey(cst, cache_id, cst.infos[info].deviceIdentifier, info)
              ELSE cst
        id1 == IF idChanged THEN cst.infos[info].deviceIdentifier ELSE cache_id
        addrChanged == cache_address # NoKey /\ cst.infos[info].address # cache_address
        s2 == IF addrChanged
              THEN Rekey(s1, cache_address, cst.infos[info].address, info)
              ELSE s1
        addr1 == IF addrChanged THEN cst.infos[info].address ELSE cache_address
    IN  IF s1.exc # "none" THEN s1
        ELSE IF s2.exc # "none" THEN s2
        ELSE [s2 EXCEPT !.infos[info].cache_keys = <<id1, addr1>>, !.result = None]

AddDeviceInfo(cst, apdu) ==
    LET byId == GetDeviceInfo(cst, apdu.iAmDeviceIdentifier)
    IN  IF byId.result # None /\ byId.infos[byId.result].address = apdu.pduSource
        THEN [byId EXCEPT !.result = None]
        ELSE
            LET found == IF byId.result # None
                         THEN [byId EXCEPT !.infos[byId.result].address = apdu.pduSource]
                         ELSE LET byAddr == GetDeviceInfo(byId, apdu.pduSource)
                              IN  IF byAddr.exc # "none" THEN byAddr
                                  ELSE [byAddr EXCEPT
                                          !.infos[byAddr.result].deviceIdentifier =
                                              apdu.iAmDeviceIdentifier]
                info == found.result
            IN  IF found.exc # "none" THEN found
                ELSE UpdateDeviceInfo(
                        [found EXCEPT
                            !.infos[info].maxApduLengthAccepted = apdu.maxAPDULengthAccepted,
                            !.infos[info].segmentationSupported = apdu.segmentationSupported,
                            !.infos[info].vendorID = apdu.vendorID],
                        info)

\* variant: only the identifier key is deleted
ReleaseDeviceInfo_IdOnly(cst, info) ==
    LET cache_id == cst.infos[info].cache_keys[1]
    IN  IF cache_id = NoKey THEN cst
        ELSE IF cst.cache[cache_id] = None
        THEN [cst EXCEPT !.exc = "KeyError"]
        ELSE [cst EXCEPT !.cache[cache_id] = None]

ReleaseDeviceInfo(cst, info) ==
    LET cache_id == cst.infos[info].cache_keys[1]
        cache_address == cst.infos[info].cache_keys[2]
        s1 == IF cache_id = NoKey THEN cst
              ELSE IF cst.cache[cache_id] = None
              THEN [cst EXCEPT !.exc = "KeyError"]
              ELSE [cst EXCEPT !.cache[cache_id] = None]
    IN  IF s1.exc # "none" THEN s1
        ELSE IF cache_address = NoKey THEN s1
        ELSE IF s1.cache[cache_address] = None
        THEN [s1 EXCEPT !.exc = "KeyError"]
        ELSE [s1 EXCEPT !.cache[cache_address] = None]

\* ---- specification of the device information cache -----------------------
\* the outcome of a call becomes the state; calls that would build more
\* than MaxInfos records are left out
Becomes(op, out) ==
    /\ Len(out.infos) <= MaxInfos
    /\ cache' = out.cache
    /\ infos' = out.infos
    /\ ret' = [op |-> op, result |-> out.result, exc |-> out.exc]

DoGetDeviceInfo ==
    \E key \in DeviceIds \cup StationAddrs \cup OtherAddrs \cup NotKeys :
        /\ Becomes("get_device_info", GetDeviceInfo(CacheState, key))
        /\ UNCHANGED <<appVars, indVars, objVars, services>>

DoAddDeviceInfo ==
    \E apdu \in IAmInputs :
        /\ Becomes("add_device_info", AddDeviceInfo(CacheState, apdu))
        /\ UNCHANGED <<appVars, indVars, objVars, services>>

\* the application writes the identifier and the address of a record it
\* holds and tells the cache
DoUpdateDeviceInfo ==
    \E info \in 1..Len(infos), id \in DeviceIds, address \in StationAddrs :
        /\ Becomes("update_device_info",
                   UpdateDeviceInfo(
                       [CacheState EXCEPT !.infos[info].deviceIdentifier = id,
                                          !.infos[info].address = address],
                       info))
        /\ UNCHANGED <<appVars, indVars, objVars, services>>

DoReleaseDeviceInfo ==
    \E info \in 1..Len(infos) :
        /\ Becomes("release_device_info", ReleaseDeviceInfo(CacheState, info))
        /\ UNCHANGED <<appVars, indVars, objVars, services>>

NextCache ==
    DoGetDeviceInfo \/ DoAddDeviceInfo \/ DoUpdateDeviceInfo \/ DoReleaseDeviceInfo

SpecCache == Init /\ [][NextCache]_vars

\* ---- Application: the local objects --------------------------------------
maximum_instance_number == 4194303

ObjectNames == {"n1", "n2"}
ObjectIds ==
    {<<"analogValue", 1>>, <<"analogValue", 2>>,
     <<"analogValue", maximum_instance_number>>}

\* the objects handed to add_object and delete_object; "" and <<>> stand
\* for a missing name and a missing identifier
Objects ==
    [objectName : ObjectNames \cup {""}, objectIdentifier : ObjectIds \cup {<<>>}]

DeviceObject == [objectName |-> "dev", objectIdentifier |-> <<"device", 1>>]

\* the local device objects an Application may be built with: without
\* objectList property, with an empty objectList, with an objectList that
\* names the device
LocalDevices ==
    {[present |-> TRUE, objectName |-> DeviceObject.objectName,
      objectIdentifier |-> DeviceObject.objectIdentifier,
      hasObjectList |-> h, objectList |-> l] :
        h \in BOOLEAN, l \in {<<>>, <<DeviceObject.objectIdentifier>>}}
    \ {[present |-> TRUE, objectName |-> DeviceObject.objectName,
        objectIdentifier |-> DeviceObject.objectIdentifier,
        hasObjectList |-> FALSE, objectList |-> <<DeviceObject.objectIdentifier>>]}

\* d[k] = v and del d[k] on a dictionary
DictSet(d, k, v) == [x \in DOMAIN d \cup {k} |-> IF x = k THEN v ELSE d[x]]

DictDel(d, k) == [x \in DOMAIN d \ {k} |-> d[x]]

\* list.index(v) and del list[indx]
Index(list, v) == CHOOSE n \in 1..Len(list) : list[n] = v /\ \A j \in 1..(n - 1) : list[j] # v

DelAt(list, indx) == SubSeq(list, 1, indx - 1) \o SubSeq(list, indx + 1, Len(list))

\* variant: the property is tested for presence, not for a non-empty value
HasObjectList_Present(dev) == dev.hasObjectList

\* self.localDevice.objectList, taken as a truth value
HasObjectList(dev) == dev.hasObjectList /\ dev.objectList # <<>>

\* variant: the name is not tested
NameDefined_Never(obj) == FALSE

NameDefined(obj) == obj.objectName \in DOMAIN objectName

IdentifierDefined(obj) == obj.objectIdentifier \in DOMAIN objectIdentifier

InstanceTooLarge(obj) == obj.objectIdentifier[2] >= maximum_instance_number

ObjectCall(op, exc) == ret' = [op |-> op, result |-> None, exc |-> exc]

AddObject(obj) ==
    IF obj.objectName = "" \/ obj.objectIdentifier = <<>> THEN
        ObjectCall("add_object", "RuntimeError") /\ UNCHANGED objVars
    ELSE IF InstanceTooLarge(obj) THEN
        ObjectCall("add_object", "RuntimeError") /\ UNCHANGED objVars
    ELSE IF NameDefined(obj) \/ IdentifierDefined(obj) THEN
        ObjectCall("add_object", "RuntimeError") /\ UNCHANGED objVars
    ELSE
        /\ objectName' = DictSet(objectName, obj.objectName, obj)
        /\ objectIdentifier' = DictSet(objectIdentifier, obj.objectIdentifier, obj)
        /\ IF ~localDevice.present THEN
               \* the attribute localDevice was never set
               /\ ObjectCall("add_object", "AttributeError")
               /\ UNCHANGED <<localDevice, attached>>
           ELSE
               /\ localDevice' =
                     IF HasObjectList(localDevice)
                     THEN [localDevice EXCEPT !.objectList = Append(@, obj.objectIdentifier)]
                     ELSE localDevice
               /\ attached' = attached \cup {obj}
               /\ ObjectCall("add_object", "none")

DeleteObject(obj) ==
    IF obj.objectName \notin DOMAIN objectName THEN
        ObjectCall("delete_object", "KeyError") /\ UNCHANGED objVars
    ELSE
        /\ objectName' = DictDel(objectName, obj.objectName)
        /\ IF obj.objectIdentifier \notin DOMAIN objectIdentifier THEN
               /\ ObjectCall("delete_object", "KeyError")
               /\ UNCHANGED <<objectIdentifier, localDevice, attached>>
           ELSE
               /\ objectIdentifier' = DictDel(objectIdentifier, obj.objectIdentifier)
               /\ IF ~localDevice.present THEN
                      /\ ObjectCall("delete_object", "AttributeError")
                      /\ UNCHANGED <<localDevice, attached>>
                  ELSE IF ~HasObjectList(localDevice) THEN
                      /\ ObjectCall("delete_object", "none")
                      /\ attached' = attached \ {obj}
                      /\ UNCHANGED localDevice
                  ELSE IF \A n \in 1..Len(localDevice.objectList) :
                             localDevice.objectList[n] # obj.objectIdentifier THEN
                      /\ ObjectCall("delete_object", "ValueError")
                      /\ UNCHANGED <<localDevice, attached>>
                  ELSE
                      /\ localDevice' =
                            [localDevice EXCEPT
                                !.objectList = DelAt(@, Index(@, obj.objectIdentifier))]
                      /\ attached' = attached \ {obj}
                      /\ ObjectCall("delete_object", "none")

\* ---- specification of the local objects ----------------------------------
\* Application.__init__ with or without a local device
InitObj ==
    /\ controllers = [a \in Addr |-> None]
    /\ ctls = <<>>
    /\ iocbs = <<>>
    /\ lower = <<>>
    /\ ret = NoCall
    /\ helpers = {}
    /\ responses = <<>>
    /\ invoked = <<>>
    /\ cache = EmptyCache
    /\ infos = <<>>
    /\ services = {}
    /\ localDevice \in LocalDevices \cup {NoDevice}
    /\ IF localDevice.present
       THEN /\ objectName = DictSet(<<>>, DeviceObject.objectName, DeviceObject)
            /\ objectIdentifier = DictSet(<<>>, DeviceObject.objectIdentifier, DeviceObject)
            /\ attached = {DeviceObject}
       ELSE /\ objectName = <<>>
            /\ objectIdentifier = <<>>
            /\ attached = {}

DoAddObject ==
    \E obj \in Objects :
        AddObject(obj) /\ UNCHANGED <<appVars, indVars, cacheVars, services>>

DoDeleteObject ==
    \E obj \in Objects \cup {DeviceObject} :
        DeleteObject(obj) /\ UNCHANGED <<appVars, indVars, cacheVars, services>>

NextObj == DoAddObject \/ DoDeleteObject

SpecObj == InitObj /\ [][NextObj]_vars

\* ---- observations used by the properties ---------------------------------
Resolved(i) == iocbs[i].ioState \in {"COMPLETED", "ABORTED"}

IocbsFor(D) == {i \in 1..Len(iocbs) : iocbs[i].apdu.pduDestination = D}

IsSentConfirmed(m, D) == m.type = "ConfirmedRequestPDU" /\ m.pduDestination = D

\* the confirmed requests for D handed to the lower layer, in the order of
\* the calls of request_fn
SentFor(D) == SelectSeq(lower, LAMBDA m : IsSentConfirmed(m, D))

\* IOCBs are numbered in the order of the calls of Application.request
InSubmissionOrder(sent, D) ==
    /\ \A k \in 1..Len(sent) : sent[k].id \in IocbsFor(D)
    /\ \A k \in 1..Len(sent) :
          Cardinality({i \in IocbsFor(D) : i < sent[k].id}) = k - 1

InFlight(D) ==
    {i \in IocbsFor(D) :
        /\ \E k \in 1..Len(lower) : lower[k] = iocbs[i].apdu
        /\ ~Resolved(i)}

\* ---- C1 -------------------------------------------------------------------
\* C1 (part): for every destination D the confirmed requests for D reach the
\* lower layer in the order in which they were submitted, none skipped.
C1_SubmissionOrder == \A D \in Addr : InSubmissionOrder(SentFor(D), D)

\* C1: for every destination D the confirmed requests for D are handed to the
\* lower layer in submission order, and the (k+1)-th of them is handed down
\* only after the k-th has been resolved, i.e. every request for D that was
\* handed down before the latest one is resolved.
C1_OrderAndHandover ==
    \A D \in Addr :
        /\ InSubmissionOrder(SentFor(D), D)
        /\ \A k \in 1..(Len(SentFor(D)) - 1) : Resolved(SentFor(D)[k].id)

\* ---- C2 -------------------------------------------------------------------
\* C2: for each destination address at most one confirmed request has been
\* handed to the lower layer and is not yet resolved, whichever controller
\* it was submitted through.
C2_AtMostOneInFlight == \A D \in Addr : Cardinality(InFlight(D)) <= 1

\* ---- C3 -------------------------------------------------------------------
\* C3: every confirmed request that is active or queued (not yet resolved)
\* belongs to the controller currently registered under its destination, so
\* no controller is removed while it has a request in flight.
C3_RegisteredWhileOutstanding ==
    \A i \in 1..Len(iocbs) :
        ~Resolved(i) =>
            /\ controllers[iocbs[i].apdu.pduDestination] # None
            /\ controllers[iocbs[i].apdu.pduDestination] = iocbs[i].ioController

\* ---- C4 -------------------------------------------------------------------
AllResolved(D) == \A i \in IocbsFor(D) : Resolved(i)

\* a step in which a confirmation resolves a request for D
ResolvesFor(D) ==
    /\ ret'.op = "confirmation"
    /\ \E i \in IocbsFor(D) : ~Resolved(i) /\ iocbs'[i].ioState \in {"COMPLETED", "ABORTED"}

\* a step in which a confirmed request for D is accepted
SubmitsFor(D) ==
    /\ Len(iocbs') = Len(iocbs) + 1
    /\ iocbs'[Len(iocbs')].apdu.pduDestination = D

\* C4: when a confirmation resolves the last outstanding request for D the
\* controller for D leaves the registry; the next confirmed request for D
\* finds no controller, builds and registers a new one, becomes its active
\* request and is handed to the lower layer in the same call.
C4_RemovedThenFresh ==
    [][\A D \in Addr :
        /\ (ResolvesFor(D) /\ \A i \in IocbsFor(D) : iocbs'[i].ioState \in {"COMPLETED", "ABORTED"})
              => controllers'[D] = None
        /\ (SubmitsFor(D) /\ AllResolved(D))
              => /\ controllers[D] = None
                 /\ Len(ctls') = Len(ctls) + 1
                 /\ controllers'[D] = Len(ctls')
                 /\ ctls'[Len(ctls')] = [address |-> D, active_iocb |-> Len(iocbs'),
                                         queue |-> <<>>]
                 /\ lower' = Append(lower, iocbs'[Len(iocbs')].apdu)
                 /\ ret'.result = Len(iocbs')]_vars

\* the first request for A1 was resolved, its controller removed, and a second
\* request for A1 is active in a second controller
C4_Witness ==
    /\ Len(iocbs) = 2 /\ Len(ctls) = 2
    /\ IocbsFor("A1") = {1, 2}
    /\ Resolved(1)
    /\ iocbs[1].ioController = 1 /\ iocbs[2].ioController = 2
    /\ controllers["A1"] = 2
    /\ ctls[2].active_iocb = 2
    /\ Len(SentFor("A1")) = 2

\* ---- C5 -------------------------------------------------------------------
\* C5: Application.request with an unconfirmed message hands it to the lower
\* layer once, in the same call, returns None without failing, and leaves
\* the registry, every controller and every IOCB as they were.
C5_UnconfirmedPassThrough ==
    [][\A apdu \in RequestInputs :
        (apdu.type = "UnconfirmedRequestPDU" /\ Request(apdu))
            => /\ lower' = Append(lower, apdu)
               /\ ret' = [op |-> "request", result |-> None, exc |-> "none"]
               /\ controllers' = controllers
               /\ ctls' = ctls
               /\ iocbs' = iocbs]_vars

\* an unconfirmed request for A1 went down while A1 had a request in flight
\* and another one queued
C5_Witness ==
    /\ ret = [op |-> "request", result |-> None, exc |-> "none"]
    /\ Len(lower) = 2
    /\ lower[2] = [type |-> "UnconfirmedRequestPDU", pduDestination |-> "A1", id |-> 0]
    /\ controllers["A1"] = 1
    /\ ctls[1].active_iocb = 1
    /\ ctls[1].queue = <<2>>

\* ---- C6 -------------------------------------------------------------------
\* C6: a confirmation whose source has no registered controller returns
\* without raising, resolves no IOCB, hands nothing to the lower layer and
\* leaves the registry and the controllers as they were.
C6_StrayDropped ==
    [][\A apdu \in ConfirmationInputs :
        (controllers[apdu.pduSource] = None /\ Confirmation(apdu))
            => /\ ret' = [op |-> "confirmation", result |-> None, exc |-> "none"]
               /\ iocbs' = iocbs
               /\ lower' = lower
               /\ controllers' = controllers
               /\ ctls' = ctls]_vars

\* a confirmation returned normally while requests are outstanding and none
\* of the requests built so far is resolved: it came from another source
C6_Witness ==
    /\ ret = [op |-> "confirmation", result |-> None, exc |-> "none"]
    /\ Len(iocbs) = 2
    /\ \A i \in 1..Len(iocbs) : ~Resolved(i)
    /\ controllers["A2"] = None

\* ---- C7 -------------------------------------------------------------------
\* C7: a confirmation of a recognised type from a source with a registered
\* controller resolves the controller's active request and no other: an
\* acknowledgment completes it with that message as the response, an error,
\* reject or abort aborts it with that message as the error; and a resolved
\* request is never changed again.
C7_ResolvesActiveOnce ==
    [][/\ \A apdu \in ConfirmationInputs :
            LET c == controllers[apdu.pduSource]
            IN  (c # None /\ apdu.type \in AckTypes \cup ErrTypes /\ Confirmation(apdu))
                => LET a == ctls[c].active_iocb
                   IN  /\ a # None
                       /\ ~Resolved(a)
                       /\ apdu.type \in AckTypes =>
                             /\ iocbs'[a].ioState = "COMPLETED"
                             /\ iocbs'[a].ioResponse = apdu
                             /\ iocbs'[a].ioError = NoAPDU
                       /\ apdu.type \in ErrTypes =>
                             /\ iocbs'[a].ioState = "ABORTED"
                             /\ iocbs'[a].ioError = apdu
                             /\ iocbs'[a].ioResponse = NoAPDU
                       /\ \A j \in 1..Len(iocbs) :
                             j # a => /\ iocbs'[j].ioState \notin {"COMPLETED", "ABORTED"}
                                         \/ iocbs'[j] = iocbs[j]
                                      /\ iocbs'[j].ioResponse = iocbs[j].ioResponse
                                      /\ iocbs'[j].ioError = iocbs[j].ioError
       /\ \A i \in 1..Len(iocbs) : Resolved(i) => iocbs'[i] = iocbs[i]]_vars

\* one request completed by a complex acknowledgment, another aborted by a
\* reject, both for A1
C7_Witness ==
    /\ Len(iocbs) >= 2
    /\ iocbs[1].ioState = "COMPLETED"
    /\ iocbs[1].ioResponse = [type |-> "ComplexAckPDU", pduSource |-> "A1"]
    /\ iocbs[2].ioState = "ABORTED"
    /\ iocbs[2].ioError = [type |-> "RejectPDU", pduSource |-> "A1"]

\* ---- C8 -------------------------------------------------------------------
Unrecognized(apdu) == apdu.type \notin AckTypes \cup ErrTypes

\* C8 (as stated): every confirmation of an unrecognised type fails with a
\* fatal error, whether or not a controller is registered for its source,
\* and leaves the registry, the active request and the queue unchanged.
C8_AlwaysFatal ==
    [][\A apdu \in ConfirmationInputs :
        (Unrecognized(apdu) /\ Confirmation(apdu))
            => /\ ret'.exc = "RuntimeError"
               /\ UNCHANGED appVars]_vars

\* C8 (amended): a confirmation of an unrecognised type fails with
\* RuntimeError when a controller is registered for its source and is
\* dropped without an error when none is; in both cases the registry, the
\* controllers, the IOCBs and the lower layer are unchanged.
C8_FatalWhenRegistered ==
    [][\A apdu \in ConfirmationInputs :
        (Unrecognized(apdu) /\ Confirmation(apdu))
            => /\ ret'.exc = IF controllers[apdu.pduSource] # None
                             THEN "RuntimeError" ELSE "none"
               /\ UNCHANGED appVars]_vars

\* the call failed while A1 had an active request and a queued one
C8_Witness ==
    /\ ret = [op |-> "confirmation", result |-> None, exc |-> "RuntimeError"]
    /\ controllers["A1"] = 1
    /\ controllers["A2"] = None
    /\ ctls[1].active_iocb = 1
    /\ ctls[1].queue = <<2>>
    /\ ~Resolved(1)

\* ---- C9 -------------------------------------------------------------------
\* C9: an indication whose class has no helper function raises
\* UnrecognizedService when the message is a confirmed request and returns
\* normally when it is unconfirmed; no helper is called and nothing is
\* handed to the lower layer, neither as a request nor as a response.
C9_NoHelper ==
    [][\A apdu \in IndicationInputs, outcome \in HelperOutcomes :
        (apdu.name \notin helpers /\ Indication(apdu, outcome))
            => /\ ret'.op = "indication"
               /\ ret'.exc = IF apdu.type = "ConfirmedRequestPDU"
                             THEN "UnrecognizedService" ELSE "none"
               /\ invoked' = invoked
               /\ responses' = responses
               /\ lower' = lower]_vars

\* a confirmed request without helper was refused after a helper of another
\* class had run
C9_Witness ==
    /\ ret = [op |-> "indication", result |-> None, exc |-> "UnrecognizedService"]
    /\ helpers = {"WhoIsRequest"}
    /\ Len(invoked) = 1
    /\ responses = <<>>

\* ---- C10 ------------------------------------------------------------------
Last(q) == q[Len(q)]

\* a step in which a helper function was called and raised ExecutionError
HelperRaisedExecutionError ==
    /\ Len(invoked') = Len(invoked) + 1
    /\ Last(invoked').outcome.kind = "ExecutionError"

\* C10: when the helper raises ExecutionError(errorClass, errorCode) the
\* indication returns normally; for a confirmed request one Error carrying
\* that class and code, with the request as context, is handed to response,
\* for an unconfirmed request nothing is.
C10_ExecutionError ==
    [][HelperRaisedExecutionError =>
        LET call == Last(invoked')
        IN  /\ ret' = [op |-> "indication", result |-> None, exc |-> "none"]
            /\ lower' = lower
            /\ IF call.apdu.type = "ConfirmedRequestPDU"
               THEN responses' = Append(responses,
                        [type |-> "Error", errorClass |-> call.outcome.errorClass,
                         errorCode |-> call.outcome.errorCode, context |-> call.apdu])
               ELSE responses' = responses]_vars

\* a confirmed request got its Error response and an unconfirmed one, failing
\* the same way, got none
C10_Witness ==
    /\ Len(invoked) = 2
    /\ invoked[1].apdu.name = "ReadPropertyRequest"
    /\ invoked[1].outcome = [kind |-> "ExecutionError", errorClass |-> "object",
                             errorCode |-> "unknownObject"]
    /\ invoked[2].apdu.name = "WhoIsRequest"
    /\ invoked[2].outcome.kind = "ExecutionError"
    /\ Len(responses) = 1
    /\ responses[1].errorClass = "object"
    /\ responses[1].errorCode = "unknownObject"
    /\ responses[1].context = invoked[1].apdu
    /\ ret.exc = "none"

\* ---- C11 ------------------------------------------------------------------
\* a step in which a helper function was called
HelperCalled == Len(invoked') = Len(invoked) + 1

\* the step handed exactly one Error with the given class, code and context
\* to response
OneErrorSent(errorClass, errorCode, context) ==
    responses' = Append(responses,
                        [type |-> "Error", errorClass |-> errorClass,
                         errorCode |-> errorCode, context |-> context])

\* C11: when the helper of a confirmed request raises an exception that is
\* neither RejectException, AbortException nor ExecutionError, one Error
\* (device, operationalProblem) with the request as context is handed to
\* response and the indication returns normally; and every indication of a
\* confirmed request whose helper raised ends either with one Error handed
\* to response and a normal return, or with the reject or abort raised and
\* nothing handed to response.
C11_FallbackAnswer ==
    [][HelperCalled =>
        LET call == Last(invoked')
        IN  /\ (call.outcome.kind = "Exception" /\ call.apdu.type = "ConfirmedRequestPDU")
                  => /\ OneErrorSent("device", "operationalProblem", call.apdu)
                     /\ ret' = [op |-> "indication", result |-> None, exc |-> "none"]
            /\ (call.outcome.kind # "return" /\ call.apdu.type = "ConfirmedRequestPDU")
                  => \/ /\ ret'.exc = "none"
                        /\ \E c \in ErrorClasses, k \in ErrorCodes :
                              OneErrorSent(c, k, call.apdu)
                     \/ /\ ret'.exc \in {"RejectException", "AbortException"}
                        /\ ret'.exc = call.outcome.kind
                        /\ responses' = responses]_vars

\* two confirmed requests whose helpers failed unexpectedly were both
\* answered with the fallback Error
C11_Witness ==
    /\ Len(invoked) = 2
    /\ \A n \in 1..2 : /\ invoked[n].outcome.kind = "Exception"
                       /\ invoked[n].apdu.type = "ConfirmedRequestPDU"
    /\ Len(responses) = 2
    /\ \A n \in 1..2 : responses[n] = [type |-> "Error", errorClass |-> "device",
                                      errorCode |-> "operationalProblem",
                                      context |-> invoked[n].apdu]
    /\ ret.exc = "none"

\* ---- C12 ------------------------------------------------------------------
\* C12: a RejectException or AbortException raised by the helper leaves
\* Application.indication as it was raised, for confirmed and unconfirmed
\* messages alike, and nothing is handed to response or to the lower layer.
C12_RejectAbortPropagate ==
    [][(HelperCalled /\ Last(invoked').outcome.kind \in {"RejectException", "AbortException"})
        => /\ ret' = [op |-> "indication", result |-> None,
                      exc |-> Last(invoked').outcome.kind]
           /\ responses' = responses
           /\ lower' = lower]_vars

\* an abort raised for an unconfirmed message after a reject raised for a
\* confirmed one, no response handed down
C12_Witness ==
    /\ Len(invoked) = 2
    /\ invoked[1].apdu.type = "ConfirmedRequestPDU"
    /\ invoked[1].outcome.kind = "RejectException"
    /\ invoked[2].apdu.type = "UnconfirmedRequestPDU"
    /\ invoked[2].outcome.kind = "AbortException"
    /\ ret.exc = "AbortException"
    /\ responses = <<>>

\* ---- observations of the cache --------------------------------------------
\* the cache and the records after the step
CacheStateAfter == [cache |-> cache', infos |-> infos', result |-> None, exc |-> "none"]

IsCached(c, r) == \E k \in CacheKeys : c[k] = r

AddStep(apdu) == Becomes("add_device_info", AddDeviceInfo(CacheState, apdu))

GetStep(key) == Becomes("get_device_info", GetDeviceInfo(CacheState, key))

ReleaseStep(info) == Becomes("release_device_info", ReleaseDeviceInfo(CacheState, info))

UpdateStep(info, id, address) ==
    Becomes("update_device_info",
            UpdateDeviceInfo([CacheState EXCEPT !.infos[info].deviceIdentifier = id,
                                                !.infos[info].address = address],
                             info))

\* ---- C13 ------------------------------------------------------------------
\* C13: after the announcement (I, A1) and then the announcement (I, A2),
\* A2 # A1, the lookup by I gives a record whose address is A2, the same
\* record is the one found under A2, and A1 no longer leads to it.
C13_AddressFollowsAnnouncement ==
    [][\A apdu \in IAmInputs, A1 \in StationAddrs :
        LET I == apdu.iAmDeviceIdentifier
            A2 == apdu.pduSource
        IN  (/\ A1 # A2
             /\ ret.op = "add_device_info"
             /\ cache[A1] # None
             /\ infos[cache[A1]].deviceIdentifier = I
             /\ cache[A2] = None
             /\ AddStep(apdu))
            => LET found == GetDeviceInfo(CacheStateAfter, I).result
               IN  /\ found # None
                   /\ infos'[found].address = A2
                   /\ cache'[A2] = found
                   /\ cache'[A1] # found]_vars

\* ---- C14 ------------------------------------------------------------------
\* the keys under which the cache holds record r are its current identifier
\* and address, each of them when it is not None, and no other key
IndexedAsRecorded(c, is, r) ==
    /\ is[r].deviceIdentifier # NoKey => c[is[r].deviceIdentifier] = r
    /\ is[r].address # NoKey => c[is[r].address] = r
    /\ \A k \in CacheKeys : c[k] = r => k \in {is[r].deviceIdentifier, is[r].address}
    /\ is[r].cache_keys = <<is[r].deviceIdentifier, is[r].address>>

\* C14: after update_device_info on a cached record and after every
\* add_device_info, the record is in the cache under its current identifier
\* and its current address and under no other key, also when the identifier
\* was None when the record was built.
C14_IndexedUnderCurrentKeys ==
    [][/\ \A apdu \in IAmInputs :
            AddStep(apdu) => /\ cache'[apdu.pduSource] # None
                             /\ IndexedAsRecorded(cache', infos', cache'[apdu.pduSource])
       /\ \A info \in 1..Len(infos), id \in DeviceIds, address \in StationAddrs :
            (IsCached(cache, info) /\ UpdateStep(info, id, address) /\ ret'.exc = "none")
                => IndexedAsRecorded(cache', infos', info)]_vars

\* ---- C15 ------------------------------------------------------------------
\* C15 (as stated): after release of a cached record, has() is false for its
\* identifier and for its address and get() of either key returns no record.
C15_ReleaseThenMiss ==
    [][\A info \in 1..Len(infos) :
        (IsCached(cache, info) /\ ReleaseStep(info))
            => LET id == infos[info].deviceIdentifier
                   address == infos[info].address
               IN  /\ ret'.exc = "none"
                   /\ ~HasDeviceInfo(CacheStateAfter, address)
                   /\ GetDeviceInfo(CacheStateAfter, address).result = None
                   /\ id # NoKey => /\ ~HasDeviceInfo(CacheStateAfter, id)
                                    /\ GetDeviceInfo(CacheStateAfter, id).result = None]_vars

\* C15 (amended): after release of a cached record, has() is false for its
\* identifier and for its address, get() of the identifier returns None,
\* and get() of the address does not return the released record: it builds
\* a new blank record for that address.
C15_ReleaseThenNotFound ==
    [][\A info \in 1..Len(infos) :
        (IsCached(cache, info) /\ ReleaseStep(info))
            => LET id == infos[info].deviceIdentifier
                   address == infos[info].address
                   again == GetDeviceInfo(CacheStateAfter, address)
               IN  /\ ret'.exc = "none"
                   /\ ~IsCached(cache', info)
                   /\ ~HasDeviceInfo(CacheStateAfter, address)
                   /\ again.result = Len(infos') + 1
                   /\ again.result # info
                   /\ again.infos[again.result].address = address
                   /\ again.infos[again.result].deviceIdentifier = NoKey
                   /\ id # NoKey => /\ ~HasDeviceInfo(CacheStateAfter, id)
                                    /\ GetDeviceInfo(CacheStateAfter, id).result = None]_vars

\* an announced record, moved to another address, was released and a second
\* record exists: the released one is out of the cache
C15_Witness ==
    /\ ret = [op |-> "release_device_info", result |-> None, exc |-> "none"]
    /\ Len(infos) = 2
    /\ infos[1].deviceIdentifier = "I1"
    /\ infos[1].address = "A2"
    /\ infos[1].vendorID = 15
    /\ ~IsCached(cache, 1)
    /\ IsCached(cache, 2)

\* ---- C16 ------------------------------------------------------------------
\* C16: get of a station address A that is no key of the cache builds one
\* record with address A and puts it in the cache under A; get of an A that
\* is a key returns the record found there and builds nothing; and the
\* record under A changes only by a release or an update.
C16_CreateOnceThenStable ==
    [][/\ \A A \in StationAddrs :
            GetStep(A) =>
                IF cache[A] = None
                THEN /\ Len(infos') = Len(infos) + 1
                     /\ \A r \in 1..Len(infos) : infos'[r] = infos[r]
                     /\ infos'[Len(infos')].address = A
                     /\ infos'[Len(infos')].cache_keys = <<NoKey, A>>
                     /\ cache' = [cache EXCEPT ![A] = Len(infos')]
                     /\ ret' = [op |-> "get_device_info", result |-> Len(infos'),
                                exc |-> "none"]
                ELSE /\ ret' = [op |-> "get_device_info", result |-> cache[A],
                                exc |-> "none"]
                     /\ UNCHANGED cacheVars
       /\ \A A \in StationAddrs :
            (cache[A] # None /\ cache'[A] # cache[A])
                => ret'.op \in {"release_device_info", "update_device_info"}]_vars

\* the last get returned the first record although a second one exists: it
\* found the record that an earlier get had built
C16_Witness ==
    /\ ret = [op |-> "get_device_info", result |-> 1, exc |-> "none"]
    /\ Len(infos) = 2
    /\ cache["A1"] = 1
    /\ cache["A2"] = 2
    /\ infos[1] = [DeviceInfo EXCEPT !.address = "A1", !.cache_keys = <<NoKey, "A1">>]

\* ---- C17 ------------------------------------------------------------------
\* C17: get changes the cache only for a station address that is no key of
\* it; get of a device identifier returns what the cache holds under it and
\* changes nothing; get of any other key raises TypeError and changes
\* nothing.
C17_GetFrame ==
    [][\A key \in DeviceIds \cup StationAddrs \cup OtherAddrs \cup NotKeys :
        GetStep(key) =>
            /\ (cache' # cache \/ infos' # infos)
                  => key \in StationAddrs /\ cache[key] = None
            /\ key \in DeviceIds
                  => /\ ret' = [op |-> "get_device_info", result |-> cache[key],
                                exc |-> "none"]
                     /\ UNCHANGED cacheVars
            /\ key \notin DeviceIds \cup StationAddrs
                  => /\ ret' = [op |-> "get_device_info", result |-> None,
                                exc |-> "TypeError"]
                     /\ UNCHANGED cacheVars]_vars

\* a get failed on its key while the cache holds an announced record
C17_Witness ==
    /\ ret = [op |-> "get_device_info", result |-> None, exc |-> "TypeError"]
    /\ Len(infos) = 1
    /\ infos[1].deviceIdentifier = "I1"
    /\ cache["A1"] = 1

\* ---- the local objects ---------------------------------------------------
Range(list) == {list[n] : n \in 1..Len(list)}

\* add_object is called with obj
AddObjectStep(obj) ==
    AddObject(obj) /\ UNCHANGED <<appVars, indVars, cacheVars, services>>

\* obj is one add_object rejects: its name or its identifier is registered,
\* or its instance number is out of range
Rejected(obj) ==
    /\ obj.objectName # ""
    /\ obj.objectIdentifier # <<>>
    /\ \/ obj.objectName \in DOMAIN objectName
       \/ obj.objectIdentifier \in DOMAIN objectIdentifier
       \/ obj.objectIdentifier[2] >= maximum_instance_number

\* C18: an add_object call for an object whose name is registered, whose
\* identifier is registered or whose instance number is out of range raises
\* and leaves the name index, the identifier index and the object list of the
\* local device as they were; so after a second add_object under a
\* registered name the first object is still the entry of that name and the
\* second identifier is not registered.
C18_RejectedAddChangesNothing ==
    [][\A obj \in Objects :
          (AddObjectStep(obj) /\ Rejected(obj))
              => /\ ret'.exc = "RuntimeError"
                 /\ UNCHANGED <<objectName, objectIdentifier, localDevice>>
                 /\ (obj.objectName \in DOMAIN objectName
                        /\ obj.objectIdentifier \notin DOMAIN objectIdentifier)
                    => /\ objectName'[obj.objectName] = objectName[obj.objectName]
                       /\ obj.objectIdentifier \notin DOMAIN objectIdentifier']_vars

\* an add_object was rejected while n1 names analogValue 1 and analogValue 2
\* is not registered: the state after adding (n1, analogValue 1) and then
\* (n1, analogValue 2)
C18_Witness ==
    /\ ret = [op |-> "add_object", result |-> None, exc |-> "RuntimeError"]
    /\ localDevice.present
    /\ "n1" \in DOMAIN objectName
    /\ objectName["n1"] = [objectName |-> "n1", objectIdentifier |-> <<"analogValue", 1>>]
    /\ DOMAIN objectIdentifier = {DeviceObject.objectIdentifier, <<"analogValue", 1>>}
    /\ localDevice.objectList = <<DeviceObject.objectIdentifier, <<"analogValue", 1>>>>

\* C19: with a local device that has an object list, the list holds the
\* identifier of every registered object that was added and no identifier
\* that is not registered.
C19_ObjectListMirrorsRegistry ==
    (localDevice.present /\ localDevice.hasObjectList)
        => /\ \A id \in DOMAIN objectIdentifier \ {DeviceObject.objectIdentifier} :
                  id \in Range(localDevice.objectList)
           /\ \A id \in Range(localDevice.objectList) : id \in DOMAIN objectIdentifier

\* ---- the services supported ----------------------------------------------
\* the bit of ServicesSupported that stands for the service class name
BitOf(name) ==
    IF name \in ConfirmedNames
    THEN ConfirmedServiceChoice[
             CHOOSE c \in DOMAIN confirmed_request_types : confirmed_request_types[c] = name]
    ELSE UnconfirmedServiceChoice[
             CHOOSE c \in DOMAIN unconfirmed_request_types : unconfirmed_request_types[c] = name]

HandedDown(i) == \E k \in 1..Len(lower) : lower[k] = iocbs[i].apdu

\* C21: with every request that was handed to the lower layer answered by
\* its destination, each confirmed request accepted by Application.request
\* is eventually handed to the lower layer and eventually completed or
\* aborted, however many requests are queued for its destination.
C21_EventuallyResolved ==
    \A i \in 1..MaxReq :
        (Len(iocbs) >= i) ~> (Len(iocbs) >= i /\ HandedDown(i) /\ Resolved(i))

\* ---- consistency of the index of the cache -------------------------------
\* every entry of the cache leads to a record that lists the key of the
\* entry among its _cache_keys
EntriesHoldTheirKey ==
    \A k \in CacheKeys :
        cache[k] # None =>
            k \in {infos[cache[k]].cache_keys[1], infos[cache[k]].cache_keys[2]}

\* releasing info leaves the entries of every other record in place
ReleaseKeepsOthers(info) ==
    \A k \in CacheKeys : (cache[k] # None /\ cache[k] # info) => cache'[k] = cache[k]

\* releasing a record the cache holds raises nothing
ReleaseOfCachedSucceeds(info) == IsCached(cache, info) => ret'.exc = "none"

\* C22: every entry of the cache leads to a record whose _cache_keys hold
\* the key of the entry; a release removes no entry that leads to another
\* record, and the release of a record the cache holds does not fail on a
\* missing key, also after the address of a record was changed to one under
\* which another record is indexed.
C22_IndexConsistency ==
    /\ []EntriesHoldTheirKey
    /\ [][\A info \in 1..Len(infos) :
             ReleaseStep(info) => (ReleaseKeepsOthers(info) /\ ReleaseOfCachedSucceeds(info))]_vars

====
